---- MODULE Spec2Model ----
(***************************************************************************)
(* Model of the haveibeenpwned v2 client (src/src/clientv2.rs): the JSON   *)
(* value tree, the record decoders, the URL composition and the five       *)
(* request executors.                                                      *)
(***************************************************************************)
EXTENDS Integers, Sequences, FiniteSets, TLC

(***************************************************************************)
(* Bounds of the model.                                                    *)
(***************************************************************************)
\* longest top-level array a response carries
MaxArrayLen == 2
\* longest account string (in characters) given to a request
MaxAccountLen == 2
\* longest domain string (in characters) given to set_domain
MaxDomainLen == 1

(***************************************************************************)
(* serde_json::Value.  A value is a record [t, v]: t is the enum variant,  *)
(* v its payload.  Numbers keep the three variants of the parser: U64 for  *)
(* a non-negative integer, I64 for a negative one, F64 for a fraction (the *)
(* payload of F64 is the literal as written).                              *)
(***************************************************************************)
JNull == [t |-> "Null", v |-> "null"]
JBool(b) == [t |-> "Bool", v |-> b]
JU64(n) == [t |-> "U64", v |-> n]
JI64(n) == [t |-> "I64", v |-> n]
JF64(s) == [t |-> "F64", v |-> s]
JString(s) == [t |-> "String", v |-> s]
JArray(a) == [t |-> "Array", v |-> a]
JObject(o) == [t |-> "Object", v |-> o]

\* Option<T>: None is the empty sequence, Some(x) the one-element sequence
None == <<>>
Some(x) == <<x>>

\* Result<T>: Ok(v) or Err(e); an error carries the message template (tag),
\* the field name the message quotes and the value it prints, when it has one
NoErr == [tag |-> "none", field |-> "", value |-> None]
Ok(x) == [ok |-> TRUE, val |-> x, err |-> NoErr]
Err(tag, field, value) ==
    [ok |-> FALSE, val |-> <<>>, err |-> [tag |-> tag, field |-> field, value |-> value]]

as_str(obj) == IF obj.t = "String" THEN Some(obj.v) ELSE None
as_array(obj) == IF obj.t = "Array" THEN Some(obj.v) ELSE None
as_object(obj) == IF obj.t = "Object" THEN Some(obj.v) ELSE None
as_bool(obj) == IF obj.t = "Bool" THEN Some(obj.v) ELSE None
\* as_u64: U64 as it is, I64 when the cast to u64 succeeds, nothing else
as_u64(obj) ==
    IF obj.t = "U64" THEN Some(obj.v)
    ELSE IF obj.t = "I64" /\ obj.v >= 0 THEN Some(obj.v)
    ELSE None

(***************************************************************************)
(* The text of a response body, as the sequence of its JSON tokens, and    *)
(* serde_json::from_str on it.  A token is a punctuation mark or a scalar  *)
(* literal, which is its value.                                            *)
(***************************************************************************)
Punct(c) == [t |-> "Punct", v |-> c]
Lit(x) == x
IsPunct(ts, i, c) == i <= Len(ts) /\ ts[i].t = "Punct" /\ ts[i].v = c

ParseFail == [ok |-> FALSE, val |-> JNull, next |-> 0]
ParseOk(x, n) == [ok |-> TRUE, val |-> x, next |-> n]

RECURSIVE ParseValue(_, _), ParseElems(_, _, _), ParseMembers(_, _, _)
\* the value starting at token i: [ok, val, next]
ParseValue(ts, i) ==
    IF i > Len(ts) THEN ParseFail
    ELSE IF ts[i].t # "Punct" THEN ParseOk(ts[i], i + 1)
    ELSE IF IsPunct(ts, i, "[") THEN
        IF IsPunct(ts, i + 1, "]") THEN ParseOk(JArray(<<>>), i + 2)
        ELSE ParseElems(ts, i + 1, <<>>)
    ELSE IF IsPunct(ts, i, "{") THEN
        IF IsPunct(ts, i + 1, "}") THEN ParseOk(JObject(<<>>), i + 2)
        ELSE ParseMembers(ts, i + 1, <<>>)
    ELSE ParseFail

\* the elements of an array from token i on, acc the elements read so far
ParseElems(ts, i, acc) ==
    LET e == ParseValue(ts, i) IN
    IF ~e.ok THEN ParseFail
    ELSE IF IsPunct(ts, e.next, "]") THEN ParseOk(JArray(Append(acc, e.val)), e.next + 1)
    ELSE IF IsPunct(ts, e.next, ",") THEN ParseElems(ts, e.next + 1, Append(acc, e.val))
    ELSE ParseFail

\* the members of an object from token i on; a repeated key keeps the last value
ParseMembers(ts, i, acc) ==
    IF i > Len(ts) \/ ts[i].t # "String" \/ ~IsPunct(ts, i + 1, ":")
    THEN ParseFail
    ELSE LET e == ParseValue(ts, i + 2)
             key == ts[i].v
             m == [x \in (DOMAIN acc) \cup {key} |-> IF x = key THEN e.val ELSE acc[x]]
         IN  IF ~e.ok THEN ParseFail
             ELSE IF IsPunct(ts, e.next, "}") THEN ParseOk(JObject(m), e.next + 1)
             ELSE IF IsPunct(ts, e.next, ",") THEN ParseMembers(ts, e.next + 1, m)
             ELSE ParseFail

\* serde_json::from_str: one value, and nothing after it
from_str(s) ==
    LET p == ParseValue(s, 1) IN
    IF p.ok /\ p.next = Len(s) + 1 THEN Some(p.val) ELSE None

(***************************************************************************)
(* The typed getters and the record decoders.                              *)
(***************************************************************************)
get_serde_string(obj) ==
    IF as_str(obj) # None THEN Ok(as_str(obj)[1])
    ELSE Err("Failed to parse value to string", "", Some(obj))

get_serde_array(obj) ==
    IF as_array(obj) # None THEN Ok(as_array(obj)[1])
    ELSE Err("Failed to parse value to array", "", Some(obj))

get_serde_u64(obj) ==
    IF as_u64(obj) # None THEN Ok(as_u64(obj)[1])
    ELSE Err("Failed to parse value to u64", "", Some(obj))

get_serde_bool(obj) ==
    IF as_bool(obj) # None THEN Ok(as_bool(obj)[1])
    ELSE Err("Failed to parse value to bool", "", Some(obj))

\* BTreeMap::get
get(obj, name) == IF name \in DOMAIN obj THEN Some(obj[name]) ELSE None

\* get_or_err that takes a missing field for null
get_or_err_Null(name, obj) ==
    IF get(obj, name) # None THEN Ok(get(obj, name)[1]) ELSE Ok(JNull)

get_or_err(name, obj) ==
    IF get(obj, name) # None THEN Ok(get(obj, name)[1])
    ELSE Err("Failed to get field", name, None)

\* try!(get_serde_string(try!(r))) and try!(get_serde_u64(try!(r)))
TryString(r) == IF r.ok THEN get_serde_string(r.val) ELSE r
TryU64(r) == IF r.ok THEN get_serde_u64(r.val) ELSE r

\* collect::<Result<Vec<_>>>(): the first error, or every value in order
RECURSIVE FirstErr(_, _)
FirstErr(rs, i) ==
    IF i > Len(rs) THEN 0 ELSE IF ~rs[i].ok THEN i ELSE FirstErr(rs, i + 1)

CollectResults(rs) ==
    IF FirstErr(rs, 1) # 0 THEN rs[FirstErr(rs, 1)]
    ELSE Ok([i \in 1..Len(rs) |-> rs[i].val])

\* collect::<Option<Vec<_>>>(): None when one element is None
CollectOptions(os) ==
    IF \E i \in 1..Len(os) : os[i] = None THEN None
    ELSE Some([i \in 1..Len(os) |-> os[i][1]])

\* t.map(Some)
MapSome(t) == IF t.ok THEN Ok(Some(t.val)) ELSE t

\* the closure of data_classes: an array, every element of it a string
DataClassesOf(dc) ==
    LET v == get_serde_array(dc) IN
    IF ~v.ok THEN v
    ELSE CollectResults([i \in 1..Len(v.val) |-> get_serde_string(v.val[i])])

\* obj.get(key).map(G).map_or(Ok(None), |t| t.map(Some)), for each getter G
OptString(obj, key) ==
    IF get(obj, key) = None THEN Ok(None)
    ELSE MapSome(get_serde_string(get(obj, key)[1]))

OptU64(obj, key) ==
    IF get(obj, key) = None THEN Ok(None)
    ELSE MapSome(get_serde_u64(get(obj, key)[1]))

OptBool(obj, key) ==
    IF get(obj, key) = None THEN Ok(None)
    ELSE MapSome(get_serde_bool(get(obj, key)[1]))

OptDataClasses(obj, key) ==
    IF get(obj, key) = None THEN Ok(None)
    ELSE MapSome(DataClassesOf(get(obj, key)[1]))

\* the Breach literal with breach_date read from AddedDate
BreachFields_WrongKey(obj) ==
    << TryString(get_or_err("Name", obj)),
       OptString(obj, "Title"),
       OptString(obj, "Domain"),
       OptString(obj, "AddedDate"),
       OptString(obj, "AddedDate"),
       OptU64(obj, "PwnCount"),
       OptString(obj, "Description"),
       OptDataClasses(obj, "DataClasses"),
       OptBool(obj, "IsVerified"),
       OptBool(obj, "IsSensitive"),
       OptBool(obj, "IsRetired") >>

\* the field expressions of the Breach literal, in the order they are evaluated
BreachFields(obj) ==
    << TryString(get_or_err("Name", obj)),
       OptString(obj, "Title"),
       OptString(obj, "Domain"),
       OptString(obj, "BreachDate"),
       OptString(obj, "AddedDate"),
       OptU64(obj, "PwnCount"),
       OptString(obj, "Description"),
       OptDataClasses(obj, "DataClasses"),
       OptBool(obj, "IsVerified"),
       OptBool(obj, "IsSensitive"),
       OptBool(obj, "IsRetired") >>

parse_breach(obj) ==
    LET f == CollectResults(BreachFields(obj)) IN
    IF ~f.ok THEN f
    ELSE Ok([name |-> f.val[1], title |-> f.val[2], domain |-> f.val[3],
             breach_date |-> f.val[4], added_date |-> f.val[5],
             pwn_count |-> f.val[6], description |-> f.val[7],
             data_classes |-> f.val[8], is_verified |-> f.val[9],
             is_sensitive |-> f.val[10], is_retired |-> f.val[11]])

\* the array branch of breaches_from_str: every element an object, then every
\* object a Breach
BreachesOfArray(data) ==
    LET o == CollectOptions([i \in 1..Len(data) |-> as_object(data[i])]) IN
    IF o = None
    THEN Err("Failed to convert internal object from response", "", Some(JArray(data)))
    ELSE CollectResults([i \in 1..Len(o[1]) |-> parse_breach(o[1][i])])

\* breaches_from_str without its branch for a top-level object
breaches_from_str_ArrayOnly(s) ==
    LET data == from_str(s) IN
    IF data = None THEN Err("Failed to parse breaches", "", None)
    ELSE IF as_array(data[1]) # None THEN BreachesOfArray(as_array(data[1])[1])
    ELSE Err("Improperly formatted response", "", None)

breaches_from_str(s) ==
    LET data == from_str(s) IN
    IF data = None THEN Err("Failed to parse breaches", "", None)
    ELSE IF as_array(data[1]) # None THEN BreachesOfArray(as_array(data[1])[1])
    ELSE IF as_object(data[1]) # None
         THEN CollectResults(<<parse_breach(as_object(data[1])[1])>>)
    ELSE Err("Improperly formatted response", "", None)

\* title and date: the field must be there; any value that is no string is None
PasteFields(obj) ==
    << TryString(get_or_err("Source", obj)),
       TryString(get_or_err("Id", obj)),
       LET t == get_or_err("Title", obj) IN IF t.ok THEN Ok(as_str(t.val)) ELSE t,
       LET d == get_or_err("Date", obj) IN IF d.ok THEN Ok(as_str(d.val)) ELSE d,
       TryU64(get_or_err("EmailCount", obj)) >>

parse_paste(obj) ==
    LET f == CollectResults(PasteFields(obj)) IN
    IF ~f.ok THEN f
    ELSE Ok([source |-> f.val[1], id |-> f.val[2], title |-> f.val[3],
             date |-> f.val[4], email_count |-> f.val[5]])

\* the array branch of pastes_from_str that keeps the pastes that decode
PastesOfArray_SkipFailures(data) ==
    LET objs == SelectSeq(data, LAMBDA d : as_object(d) # None /\ parse_paste(d.v).ok)
    IN  Ok([i \in 1..Len(objs) |-> parse_paste(objs[i].v).val])

\* the array branch of pastes_from_str: every element an object, then every
\* object a Paste
PastesOfArray(data) ==
    LET o == CollectOptions([i \in 1..Len(data) |-> as_object(data[i])]) IN
    IF o = None
    THEN Err("Failed to convert internal object from response", "", Some(JArray(data)))
    ELSE CollectResults([i \in 1..Len(o[1]) |-> parse_paste(o[1][i])])

pastes_from_str(s) ==
    LET data == from_str(s) IN
    IF data = None THEN Err("Failed to parse pastes", "", None)
    ELSE IF as_array(data[1]) # None THEN PastesOfArray(as_array(data[1])[1])
    ELSE Err("Improperly formatted response", "", None)

\* the decoding of the data classes that leaves out what is no string
data_classes_from_str_Lenient(r) ==
    LET data == from_str(r) IN
    IF data = None THEN Err("Failed to parse data classes", "", None)
    ELSE IF as_array(data[1]) # None
         THEN LET strs == SelectSeq(as_array(data[1])[1], LAMBDA x : x.t = "String")
              IN  Ok([i \in 1..Len(strs) |-> strs[i].v])
    ELSE Err("Failed to parse DataClass into array of string", "", Some(data[1]))

\* the decoding that DataClassRequest::send does on the body it read
data_classes_from_str(r) ==
    LET data == from_str(r) IN
    IF data = None THEN Err("Failed to parse data classes", "", None)
    ELSE IF as_array(data[1]) # None
         THEN CollectResults([i \in 1..Len(as_array(data[1])[1]) |->
                                 get_serde_string(as_array(data[1])[1][i])])
    ELSE Err("Failed to parse DataClass into array of string", "", Some(data[1]))

(***************************************************************************)
(* URLs.  A string is a sequence of characters; a fixed literal of the     *)
(* source, a pair name and a percent-encoded byte each count as one        *)
(* character.  A Url is what Url::parse keeps: the part up to the end of   *)
(* the path, the query (after the first '?') and the fragment (after the   *)
(* first '#').                                                             *)
(***************************************************************************)
BreachedAccountBase == "https://haveibeenpwned.com/api/v2/breachedaccount/"
BreachesBase == "https://haveibeenpwned.com/api/v2/breaches"
BreachBase == "https://haveibeenpwned.com/api/v2/breach/"
DataClassesUrl == "https://haveibeenpwned.com/api/v2/dataclasses"
PasteAccountBase == "https://haveibeenpwned.com/api/v2/pasteaccount/"

RECURSIVE IndexOf(_, _, _)
\* the first position from i on of a character of cs in s, Len(s) + 1 if none
IndexOf(s, cs, i) ==
    IF i > Len(s) THEN Len(s) + 1 ELSE IF s[i] \in cs THEN i ELSE IndexOf(s, cs, i + 1)

\* Url::parse of base followed by rest: the path ends at the first '?' or '#',
\* the query at the first '#'
UrlParse(base, rest) ==
    LET p == IndexOf(rest, {"?", "#"}, 1)
        h == IndexOf(rest, {"#"}, 1)
    IN  [base |-> base,
         path |-> SubSeq(rest, 1, p - 1),
         query |-> IF p <= Len(rest) /\ rest[p] = "?"
                   THEN Some(SubSeq(rest, p + 1, h - 1)) ELSE None,
         fragment |-> IF h <= Len(rest) THEN Some(SubSeq(rest, h + 1, Len(rest)))
                      ELSE None]

\* the serialization of a Url
UrlString(u) ==
    <<u.base>> \o u.path
        \o (IF u.query # None THEN <<"?">> \o u.query[1] ELSE <<>>)
        \o (IF u.fragment # None THEN <<"#">> \o u.fragment[1] ELSE <<>>)

\* form_urlencoded::byte_serialize of one character
FormEncode(c) ==
    CASE c = " " -> "+"
      [] c = "&" -> "%26"
      [] c = "#" -> "%23"
      [] c = "?" -> "%3F"
      [] c = "=" -> "%3D"
      [] c = "@" -> "%40"
      [] OTHER -> c

\* url.query_pairs_mut().append_pair(name, value): the query is started when
\* there is none, '&' separates the pair from a query that is not empty
append_pair(u, name, value) ==
    LET q == IF u.query = None THEN <<>> ELSE u.query[1]
        sep == IF q # <<>> THEN <<"&">> ELSE <<>>
    IN  [u EXCEPT !.query =
            Some(q \o sep \o <<name, "=">> \o [i \in 1..Len(value) |-> FormEncode(value[i])])]

AccountBreachRequest_build_url(self) ==
    LET url == UrlParse(BreachedAccountBase, self.account)
        u1 == IF self.domain # None THEN append_pair(url, "domain", self.domain[1]) ELSE url
        u2 == IF self.truncate THEN append_pair(u1, "truncateResponse", <<"true">>) ELSE u1
    IN  UrlString(u2)

AllBreachesRequest_build_url(self) ==
    LET url == UrlParse(BreachesBase, <<>>)
    IN  UrlString(IF self.domain # None THEN append_pair(url, "domain", self.domain[1])
                  ELSE url)

BreachRequest_build_url(self, name) == <<BreachBase>> \o name

PasteRequest_build_url(self) == UrlString(UrlParse(PasteAccountBase, self.account))

(***************************************************************************)
(* The responses of the service: the values it can send and their text.    *)
(***************************************************************************)
BreachOptKeys ==
    {"Title", "Domain", "BreachDate", "AddedDate", "Description", "PwnCount",
     "DataClasses", "IsVerified", "IsSensitive", "IsRetired"}
BreachStringKeys == {"Title", "Domain", "BreachDate", "AddedDate", "Description"}
BreachBoolKeys == {"IsVerified", "IsSensitive", "IsRetired"}
PasteKeys == {"Source", "Id", "Title", "Date", "EmailCount"}

\* the order in which the text of an object lists its members
KeyOrder ==
    <<"AddedDate", "BreachDate", "DataClasses", "Date", "Description", "Domain",
      "EmailCount", "Id", "IsRetired", "IsSensitive", "IsVerified", "Name",
      "PwnCount", "Source", "Title">>

RECURSIVE to_text(_), ElemsText(_, _), MembersText(_, _, _)
\* the JSON text of a value
to_text(x) ==
    IF x.t = "Array" THEN <<Punct("[")>> \o ElemsText(x.v, 1) \o <<Punct("]")>>
    ELSE IF x.t = "Object" THEN <<Punct("{")>> \o MembersText(x.v, 1, TRUE) \o <<Punct("}")>>
    ELSE <<Lit(x)>>

ElemsText(a, i) ==
    IF i > Len(a) THEN <<>>
    ELSE (IF i > 1 THEN <<Punct(",")>> ELSE <<>>) \o to_text(a[i]) \o ElemsText(a, i + 1)

MembersText(o, i, first) ==
    IF i > Len(KeyOrder) THEN <<>>
    ELSE IF KeyOrder[i] \notin DOMAIN o THEN MembersText(o, i + 1, first)
    ELSE (IF first THEN <<>> ELSE <<Punct(",")>>)
            \o <<Lit(JString(KeyOrder[i])), Punct(":")>> \o to_text(o[KeyOrder[i]])
            \o MembersText(o, i + 1, FALSE)

\* a value of the declared type for each field
GoodValue ==
    [Name |-> JString("Adobe"), Title |-> JString("Adobe title"),
     Domain |-> JString("adobe.com"), BreachDate |-> JString("2013-10-04"),
     AddedDate |-> JString("2013-12-04T00:00:00Z"),
     Description |-> JString("In October 2013"), PwnCount |-> JU64(152445165),
     DataClasses |-> JArray(<<JString("Email addresses"), JString("Passwords")>>),
     IsVerified |-> JBool(TRUE), IsSensitive |-> JBool(FALSE), IsRetired |-> JBool(TRUE),
     Source |-> JString("Pastebin"), Id |-> JString("8Q0BvKD8"),
     Date |-> JString("2014-03-04T19:14:54Z"), EmailCount |-> JU64(139)]

\* other values of the declared type
OtherGood(k) ==
    IF k \in BreachBoolKeys THEN {JBool(~GoodValue[k].v)}
    ELSE IF k \in {"PwnCount", "EmailCount"} THEN {JU64(0)}
    ELSE IF k = "DataClasses"
         THEN {JArray(<<>>), JArray(<<JString("Passwords"), JString("Email addresses")>>)}
    ELSE {JString("")}

\* values that are not null and not of the declared type
WrongType(k) ==
    IF k \in BreachBoolKeys THEN {JString("true"), JU64(1)}
    ELSE IF k \in {"PwnCount", "EmailCount"} THEN {JI64(-1), JF64("1.5"), JString("7")}
    ELSE IF k = "DataClasses"
         THEN {JString("Passwords"), JArray(<<JString("Passwords"), JU64(1)>>)}
    ELSE {JU64(5), JBool(TRUE)}

\* the object with the good value of every key of ks
GoodObj(ks) == [k \in ks |-> GoodValue[k]]

\* obj with key k set to x
WithField(obj, k, x) == [j \in (DOMAIN obj) \cup {k} |-> IF j = k THEN x ELSE obj[j]]

\* Breach objects: every subset of the optional fields, well typed, with and
\* without Name; and those with one field null, of a wrong type or of another
\* value, alone or beside all the other fields
PlainBreachObjs == {GoodObj(ks) : ks \in SUBSET (BreachOptKeys \cup {"Name"})}
OddBreachObjs ==
    UNION {{WithField(GoodObj(ks \ {k}), k, x) :
              x \in {JNull} \cup WrongType(k) \cup OtherGood(k)} :
           <<k, ks>> \in (BreachOptKeys \cup {"Name"})
                          \X {{}, {"Name"}, BreachOptKeys, BreachOptKeys \cup {"Name"}}}
BreachObjs == PlainBreachObjs \cup OddBreachObjs

\* Paste objects: every subset of the five fields well typed, and those with
\* one or both of Title and Date, or one required field, null or of a wrong type
PasteObjs ==
    {GoodObj(ks) : ks \in SUBSET PasteKeys}
    \cup UNION {{WithField(GoodObj(ks), k, x) : x \in {JNull} \cup WrongType(k)} :
                <<k, ks>> \in PasteKeys \X {PasteKeys, PasteKeys \ {"Title"},
                                             PasteKeys \ {"Date"}}}
    \cup {WithField(WithField(GoodObj(PasteKeys), "Title", x), "Date", y) :
            x, y \in {JNull, JU64(5)}}

\* the sequences over S of length at most n
SeqsUpTo(S, n) == UNION {[1..m -> S] : m \in 0..n}

\* the elements the arrays of a response are made of
ArrayElems ==
    {JString("Email addresses"), JString("Passwords"), JU64(1), JNull,
     JObject(GoodObj({"Name"})), JObject(GoodObj(BreachOptKeys \cup {"Name"})),
     JObject(GoodObj({"Title"})),
     JObject(WithField(GoodObj({"Name"}), "Title", JU64(5))),
     JObject(GoodObj(PasteKeys)), JObject(GoodObj(PasteKeys \ {"Id"}))}

\* texts that are no JSON value: the empty text, an array left open, a value
\* followed by another
BadTexts == {<<>>, <<Punct("[")>>, <<Lit(JU64(1)), Lit(JU64(1))>>}

\* an object text that repeats a key
RepeatedKeyText ==
    <<Punct("{"), Lit(JString("Name")), Punct(":"), Lit(JU64(5)), Punct(","),
      Lit(JString("Name")), Punct(":"), Lit(JString("Adobe")), Punct("}")>>

\* the bodies given to the decoders
DecodeBodies ==
    {to_text(JObject(o)) : o \in BreachObjs \cup PasteObjs}
    \cup {to_text(JArray(<<JObject(o)>>)) : o \in BreachObjs \cup PasteObjs}
    \cup {to_text(JArray(a)) : a \in SeqsUpTo(ArrayElems, MaxArrayLen)}
    \cup {to_text(x) : x \in {JNull, JU64(1), JString("Passwords"), JBool(TRUE)}}
    \cup BadTexts \cup {RepeatedKeyText}

(***************************************************************************)
(* The client, its requests and the transport.                             *)
(***************************************************************************)
VARIABLES
    req,      \* the request object the caller holds (kind "none": no request yet)
    gets,     \* the GET requests the call of send has given to the transport
    resp,     \* what the transport did with the GET: None, or Some(outcome)
    trace,    \* the steps the call of send has run, in order
    result    \* the value send (or a decoder) returned: None, or Some(Result)

vars == <<req, gets, resp, trace, result>>

\* Clientv2::new("test-rust-client")
Client == [user_agent |-> "test-rust-client"]

AccountChars == {"a", "?", "#"}
DomainChars == {"d", "&"}
Accounts == SeqsUpTo(AccountChars, MaxAccountLen)
Domains == SeqsUpTo(DomainChars, MaxDomainLen)
BreachNames == {<<"Adobe">>, <<"000webhost">>}

NewReq(kind) ==
    [kind |-> kind, user_agent |-> Client.user_agent, account |-> <<>>,
     truncate |-> FALSE, domain |-> None, name |-> <<>>]

\* the bodies the transport hands to send
SendElems ==
    {JString("Email addresses"), JString("Passwords"), JU64(1),
     JObject(GoodObj({"Name"})), JObject(GoodObj(PasteKeys))}
SendBodies ==
    {to_text(JArray(a)) : a \in SeqsUpTo(SendElems, MaxArrayLen)}
    \cup {to_text(x) : x \in {JObject(GoodObj({"Name", "PwnCount", "IsVerified"})),
                              JObject(GoodObj(PasteKeys)), JString("Passwords")}}
    \cup {<<>>, <<Punct("[")>>}

\* what the transport can do with a GET: fail; answer with a status and a body
\* that cannot be read; answer with a status and a body
Statuses == {200, 404}
Outcomes ==
    {[net |-> FALSE, status |-> 0, read |-> FALSE, body |-> <<>>]}
    \cup {[net |-> TRUE, status |-> st, read |-> FALSE, body |-> <<>>] : st \in Statuses}
    \cup {[net |-> TRUE, status |-> st, read |-> TRUE, body |-> b] :
            st \in Statuses, b \in SendBodies}

Init ==
    /\ req = NewReq("none")
    /\ gets = <<>>
    /\ resp = None
    /\ trace = <<>>
    /\ result = None

\* the caller makes a request object only between two calls of send
Idle == result = None

get_breaches_acct(acct) ==
    /\ Idle
    /\ req' = [NewReq("AccountBreach") EXCEPT !.account = acct]
    /\ UNCHANGED <<gets, resp, trace, result>>

get_breaches ==
    /\ Idle
    /\ req' = NewReq("AllBreaches")
    /\ UNCHANGED <<gets, resp, trace, result>>

get_breach(name) ==
    /\ Idle
    /\ req' = [NewReq("Breach") EXCEPT !.name = name]
    /\ UNCHANGED <<gets, resp, trace, result>>

get_data_classes ==
    /\ Idle
    /\ req' = NewReq("DataClass")
    /\ UNCHANGED <<gets, resp, trace, result>>

get_pastes(account) ==
    /\ Idle
    /\ req' = [NewReq("Paste") EXCEPT !.account = account]
    /\ UNCHANGED <<gets, resp, trace, result>>

set_truncate(t) ==
    /\ Idle
    /\ req.kind = "AccountBreach"
    /\ req' = [req EXCEPT !.truncate = t]
    /\ UNCHANGED <<gets, resp, trace, result>>

set_domain(d) ==
    /\ Idle
    /\ req.kind \in {"AccountBreach", "AllBreaches"}
    /\ req' = [req EXCEPT !.domain = Some(d)]
    /\ UNCHANGED <<gets, resp, trace, result>>

\* send that takes a non-success status for a failure of the GET
SendWith_CheckStatus(url, steps, out, decoded, decoders) ==
    /\ gets' = <<[url |-> url, user_agent |-> req.user_agent]>>
    /\ resp' = Some(out)
    /\ IF ~out.net \/ out.status \notin 200..299
       THEN /\ result' = Some(Err("Failed to send GET request", "", None))
            /\ trace' = steps \o <<"get">>
       ELSE IF ~out.read
       THEN /\ result' = Some(Err("Failed to read response to string", "", None))
            /\ trace' = steps \o <<"get", "read_to_string">>
       ELSE /\ result' = Some(decoded)
            /\ trace' = steps \o <<"get", "read_to_string">> \o decoders
    /\ UNCHANGED req

\* send that gives the GET to the transport once more when it fails
SendWith_Retry(url, steps, out, decoded, decoders) ==
    /\ resp' = Some(out)
    /\ IF ~out.net
       THEN /\ gets' = <<[url |-> url, user_agent |-> req.user_agent],
                         [url |-> url, user_agent |-> req.user_agent]>>
            /\ result' = Some(Err("Failed to send GET request", "", None))
            /\ trace' = steps \o <<"get", "get">>
       ELSE IF ~out.read
       THEN /\ gets' = <<[url |-> url, user_agent |-> req.user_agent]>>
            /\ result' = Some(Err("Failed to read response to string", "", None))
            /\ trace' = steps \o <<"get", "read_to_string">>
       ELSE /\ gets' = <<[url |-> url, user_agent |-> req.user_agent]>>
            /\ result' = Some(decoded)
            /\ trace' = steps \o <<"get", "read_to_string">> \o decoders
    /\ UNCHANGED req

\* the body of every send after its URL is made: the GET with the user agent,
\* the read of the body, the decoding (decoded is what the decoding returns
\* for the body read, decoders the decoders it runs); steps are the steps run
\* before the GET
SendWith(url, steps, out, decoded, decoders) ==
    /\ gets' = <<[url |-> url, user_agent |-> req.user_agent]>>
    /\ resp' = Some(out)
    /\ IF ~out.net
       THEN /\ result' = Some(Err("Failed to send GET request", "", None))
            /\ trace' = steps \o <<"get">>
       ELSE IF ~out.read
       THEN /\ result' = Some(Err("Failed to read response to string", "", None))
            /\ trace' = steps \o <<"get", "read_to_string">>
       ELSE /\ result' = Some(decoded)
            /\ trace' = steps \o <<"get", "read_to_string">> \o decoders
    /\ UNCHANGED req

AccountBreachRequest_send(out) ==
    /\ Idle
    /\ req.kind = "AccountBreach"
    /\ SendWith(AccountBreachRequest_build_url(req), <<"build_url">>, out,
                breaches_from_str(out.body), <<"breaches_from_str">>)

AllBreachesRequest_send(out) ==
    /\ Idle
    /\ req.kind = "AllBreaches"
    /\ SendWith(AllBreachesRequest_build_url(req), <<"build_url">>, out,
                breaches_from_str(out.body), <<"breaches_from_str">>)

BreachRequest_send(out) ==
    /\ Idle
    /\ req.kind = "Breach"
    /\ SendWith(BreachRequest_build_url(req, req.name), <<"build_url">>, out,
                breaches_from_str(out.body), <<"breaches_from_str">>)

DataClassRequest_send(out) ==
    /\ Idle
    /\ req.kind = "DataClass"
    /\ SendWith(<<DataClassesUrl>>, <<>>, out,
                data_classes_from_str(out.body), <<"from_str">>)

\* is_empty that holds of no body
is_empty_Never(r) == FALSE

\* r.is_empty(): the body read has no character
is_empty(r) == Len(r) = 0

PasteRequest_send(out) ==
    /\ Idle
    /\ req.kind = "Paste"
    /\ IF is_empty(out.body)
       THEN SendWith(PasteRequest_build_url(req), <<"build_url">>, out, Ok(<<>>), <<>>)
       ELSE SendWith(PasteRequest_build_url(req), <<"build_url">>, out,
                     pastes_from_str(out.body), <<"pastes_from_str">>)

\* the caller takes the value send returned; the request object stays
Return ==
    /\ result # None
    /\ gets' = <<>>
    /\ resp' = None
    /\ trace' = <<>>
    /\ result' = None
    /\ UNCHANGED req

Next ==
    \/ \E acct \in Accounts : get_breaches_acct(acct)
    \/ get_breaches
    \/ \E name \in BreachNames : get_breach(name)
    \/ get_data_classes
    \/ \E account \in Accounts : get_pastes(account)
    \/ \E t \in BOOLEAN : set_truncate(t)
    \/ \E d \in Domains : set_domain(d)
    \/ \E out \in Outcomes : AccountBreachRequest_send(out)
    \/ \E out \in Outcomes : AllBreachesRequest_send(out)
    \/ \E out \in Outcomes : BreachRequest_send(out)
    \/ \E out \in Outcomes : DataClassRequest_send(out)
    \/ \E out \in Outcomes : PasteRequest_send(out)
    \/ Return

Spec == Init /\ [][Next]_vars

(***************************************************************************)
(* The decoders alone, each applied to every body of DecodeBodies.         *)
(***************************************************************************)
DecodeInit ==
    /\ req = NewReq("none")
    /\ gets = <<>>
    /\ resp \in {Some([net |-> TRUE, status |-> 200, read |-> TRUE, body |-> b]) :
                   b \in DecodeBodies}
    /\ trace = <<>>
    /\ result = None

ApplyBreaches ==
    /\ result = None
    /\ result' = Some(breaches_from_str(resp[1].body))
    /\ trace' = <<"breaches_from_str">>
    /\ UNCHANGED <<req, gets, resp>>

ApplyPastes ==
    /\ result = None
    /\ result' = Some(pastes_from_str(resp[1].body))
    /\ trace' = <<"pastes_from_str">>
    /\ UNCHANGED <<req, gets, resp>>

ApplyDataClasses ==
    /\ result = None
    /\ result' = Some(data_classes_from_str(resp[1].body))
    /\ trace' = <<"data_classes_from_str">>
    /\ UNCHANGED <<req, gets, resp>>

DecodeNext == ApplyBreaches \/ ApplyPastes \/ ApplyDataClasses

DecodeSpec == DecodeInit /\ [][DecodeNext]_vars

(***************************************************************************)
(* What the claims speak of.                                               *)
(***************************************************************************)
\* the value the body of the response is the text of, when it is one
Top == from_str(resp[1].body)
TopIs(t) == resp # None /\ Top # None /\ Top[1].t = t

\* decoder d has returned
Decoded(d) == result # None /\ trace = <<d>>

\* x is a value of the type declared for key k
WellTyped(k, x) ==
    IF k \in BreachBoolKeys THEN x.t = "Bool"
    ELSE IF k \in {"PwnCount", "EmailCount"} THEN x.t = "U64"
    ELSE IF k = "DataClasses"
         THEN x.t = "Array" /\ \A i \in 1..Len(x.v) : x.v[i].t = "String"
    ELSE x.t = "String"

\* a Breach object with a string Name and optional fields of their types
ValidBreachObj(o) ==
    /\ "Name" \in DOMAIN o
    /\ \A k \in (DOMAIN o) \cap (BreachOptKeys \cup {"Name"}) : WellTyped(k, o[k])

\* a Paste object with its five fields of their types
ValidPasteObj(o) ==
    /\ PasteKeys \subseteq DOMAIN o
    /\ \A k \in PasteKeys : WellTyped(k, o[k])

\* the optional field k of the record that object o stands for
Supplied(o, k) ==
    IF k \notin DOMAIN o THEN None
    ELSE IF k = "DataClasses" THEN Some([i \in 1..Len(o[k].v) |-> o[k].v[i].v])
    ELSE Some(o[k].v)

\* the Breach record that a valid object o stands for
BreachOf(o) ==
    [name |-> o["Name"].v, title |-> Supplied(o, "Title"),
     domain |-> Supplied(o, "Domain"), breach_date |-> Supplied(o, "BreachDate"),
     added_date |-> Supplied(o, "AddedDate"), pwn_count |-> Supplied(o, "PwnCount"),
     description |-> Supplied(o, "Description"),
     data_classes |-> Supplied(o, "DataClasses"),
     is_verified |-> Supplied(o, "IsVerified"),
     is_sensitive |-> Supplied(o, "IsSensitive"),
     is_retired |-> Supplied(o, "IsRetired")]

\* C1 as stated: with either decoder, a bare valid object decodes to one record,
\* the same as the one-element array of that object decodes to
C1_BareObjectAsArray ==
    /\ (Decoded("breaches_from_str") /\ TopIs("Object") /\ ValidBreachObj(Top[1].v))
        => /\ result[1].ok
           /\ Len(result[1].val) = 1
           /\ result[1] = breaches_from_str(to_text(JArray(<<Top[1]>>)))
    /\ (Decoded("pastes_from_str") /\ TopIs("Object") /\ ValidPasteObj(Top[1].v))
        => /\ result[1].ok
           /\ Len(result[1].val) = 1
           /\ result[1] = pastes_from_str(to_text(JArray(<<Top[1]>>)))

\* C1 amended: breaches_from_str decodes a bare valid Breach object to one
\* record, the same as the one-element array of it decodes to; pastes_from_str
\* returns the error "Improperly formatted response" for every bare object,
\* while it decodes the one-element array of a valid Paste object to one record
C1_BareObjectBreachesOnly ==
    /\ (Decoded("breaches_from_str") /\ TopIs("Object") /\ ValidBreachObj(Top[1].v))
        => /\ result[1].ok
           /\ Len(result[1].val) = 1
           /\ result[1] = breaches_from_str(to_text(JArray(<<Top[1]>>)))
    /\ (Decoded("pastes_from_str") /\ TopIs("Object"))
        => /\ ~result[1].ok
           /\ result[1].err.tag = "Improperly formatted response"
           /\ ValidPasteObj(Top[1].v)
                => LET a == pastes_from_str(to_text(JArray(<<Top[1]>>)))
                   IN  a.ok /\ Len(a.val) = 1

\* a bare valid Breach object has been decoded to one record
C1_Witness ==
    /\ Decoded("breaches_from_str") /\ TopIs("Object") /\ ValidBreachObj(Top[1].v)
    /\ result[1].ok /\ Len(result[1].val) = 1

\* the field of Breach record b that key k is decoded to
RecordField(b, k) ==
    CASE k = "Title" -> b.title
      [] k = "Domain" -> b.domain
      [] k = "BreachDate" -> b.breach_date
      [] k = "AddedDate" -> b.added_date
      [] k = "Description" -> b.description
      [] k = "PwnCount" -> b.pwn_count
      [] k = "DataClasses" -> b.data_classes
      [] k = "IsVerified" -> b.is_verified
      [] k = "IsSensitive" -> b.is_sensitive
      [] k = "IsRetired" -> b.is_retired

\* C2: parse_breach of a Breach object with a string Name and any subset of the
\* optional fields, each of its declared type, returns the record with that
\* name, the supplied fields as supplied and every other optional field absent
C2_ValidBreachDecodes ==
    (Decoded("breaches_from_str") /\ TopIs("Object") /\ ValidBreachObj(Top[1].v))
        => /\ result[1].ok
           /\ result[1].val = <<BreachOf(Top[1].v)>>
           /\ \A k \in BreachOptKeys \ DOMAIN Top[1].v :
                 RecordField(result[1].val[1], k) = None

\* the object {"Name": "Adobe"} alone has been decoded: every optional field
\* of the record is absent
C2_Witness ==
    /\ Decoded("breaches_from_str") /\ TopIs("Object")
    /\ Top[1].v = GoodObj({"Name"})
    /\ result[1].ok
    /\ result[1].val[1].name = "Adobe"
    /\ result[1].val[1].title = None /\ result[1].val[1].pwn_count = None
    /\ result[1].val[1].data_classes = None /\ result[1].val[1].is_retired = None

\* an object without Name
Nameless(x) == x.t = "Object" /\ "Name" \notin DOMAIN x.v

\* the error names the field Name
NamesName(r) == ~r.ok /\ r.val = <<>> /\ r.err.field = "Name"

\* C3 as stated: the decoding of a Breach object without Name, at the top level
\* or as an element of a top-level array (here: of objects only), is an error
\* that names Name
C3_MissingNameNamed ==
    (/\ Decoded("breaches_from_str")
     /\ \/ TopIs("Object") /\ Nameless(Top[1])
        \/ /\ TopIs("Array")
           /\ \A i \in 1..Len(Top[1].v) : Top[1].v[i].t = "Object"
           /\ \E i \in 1..Len(Top[1].v) : Nameless(Top[1].v[i]))
        => NamesName(result[1])

\* C3 amended: the decoding is always an error and never a record; the error
\* names Name when the object without Name is the top-level object, or is an
\* element of a top-level array whose elements are all objects and in which
\* every element before it is a valid Breach object
C3_MissingNameFirstFailure ==
    /\ (/\ Decoded("breaches_from_str")
        /\ \/ TopIs("Object") /\ Nameless(Top[1])
           \/ TopIs("Array") /\ \E i \in 1..Len(Top[1].v) : Nameless(Top[1].v[i]))
        => ~result[1].ok /\ result[1].val = <<>>
    /\ (Decoded("breaches_from_str") /\ TopIs("Object") /\ Nameless(Top[1]))
        => NamesName(result[1])
    /\ (/\ Decoded("breaches_from_str") /\ TopIs("Array")
        /\ \A i \in 1..Len(Top[1].v) : Top[1].v[i].t = "Object"
        /\ \E i \in 1..Len(Top[1].v) :
              /\ Nameless(Top[1].v[i])
              /\ \A j \in 1..(i - 1) : ValidBreachObj(Top[1].v[j].v))
        => NamesName(result[1])

\* an array whose second element has no Name, after a valid first element, has
\* been decoded to the error that names Name
C3_Witness ==
    /\ Decoded("breaches_from_str") /\ TopIs("Array")
    /\ Len(Top[1].v) = 2
    /\ Top[1].v[1].t = "Object" /\ ValidBreachObj(Top[1].v[1].v)
    /\ Nameless(Top[1].v[2])
    /\ NamesName(result[1])

\* the number of positions of s that hold c, and the first of them
Count(s, c) == Cardinality({i \in 1..Len(s) : s[i] = c})
Pos(s, c) == IndexOf(s, {c}, 1)

\* the URL that the send of the request has given to the transport
SentUrl == gets[1].url

\* what C4 says of the URL that was sent
AccountUrlAsClaimed ==
    /\ SubSeq(SentUrl, 1, 1 + Len(req.account)) = <<BreachedAccountBase>> \o req.account
    /\ Count(SentUrl, "domain") = (IF req.domain # None THEN 1 ELSE 0)
    /\ Count(SentUrl, "truncateResponse") = (IF req.truncate THEN 1 ELSE 0)
    /\ (req.domain # None /\ req.truncate) =>
          /\ Pos(SentUrl, "domain") < Pos(SentUrl, "truncateResponse")
          /\ SentUrl[Pos(SentUrl, "truncateResponse") - 1] = "&"
          /\ Count(SentUrl, "?") = 1
    /\ (req.domain = None /\ ~req.truncate) => Count(SentUrl, "?") = 0

\* C4 as stated: the URL of an account-breach request is the base path followed
\* by the account, with domain=... if and only if a domain is set and
\* truncateResponse=true if and only if truncate is set, domain first and '&'
\* in between, one '?' when both are set and none when neither is
C4_AccountUrlQuery ==
    (req.kind = "AccountBreach" /\ gets # <<>>) => AccountUrlAsClaimed

\* beside C4: the URL is as claimed for every account without '?' and '#'
AccountUrlOfPlainAccount ==
    (/\ req.kind = "AccountBreach" /\ gets # <<>>
     /\ \A i \in 1..Len(req.account) : req.account[i] \notin {"?", "#"})
        => AccountUrlAsClaimed

\* the send of a request of this kind has got a response and read its body
BodyRead(kind) ==
    req.kind = kind /\ result # None /\ resp # None /\ resp[1].net /\ resp[1].read

\* the steps of the trace that are a decoder
DecoderSteps ==
    {i \in 1..Len(trace) :
        trace[i] \in {"from_str", "breaches_from_str", "pastes_from_str"}}

\* C5: PasteRequest::send, after a GET and a read that succeed, returns the
\* empty sequence of pastes for a body of length zero without running
\* pastes_from_str, and for any other body what pastes_from_str returns for it
C5_EmptyBodyNoPastes ==
    BodyRead("Paste") =>
        IF Len(resp[1].body) = 0
        THEN /\ result[1].ok
             /\ result[1].val = <<>>
             /\ DecoderSteps = {}
        ELSE /\ result[1] = pastes_from_str(resp[1].body)
             /\ trace[Len(trace)] = "pastes_from_str"

\* a paste request has got an empty body and returned no paste without decoding
C5_Witness ==
    /\ BodyRead("Paste") /\ resp[1].body = <<>>
    /\ result[1].ok /\ result[1].val = <<>>
    /\ trace = <<"build_url", "get", "read_to_string">>

\* every element of the array is a string
AllStrings(a) == \A i \in 1..Len(a) : a[i].t = "String"

\* C6: the decoding of DataClassRequest::send maps a top-level array of strings
\* to these strings, in number and order, and anything else to an error
C6_DataClassesDecode ==
    BodyRead("DataClass") =>
        IF TopIs("Array") /\ AllStrings(Top[1].v)
        THEN /\ result[1].ok
             /\ Len(result[1].val) = Len(Top[1].v)
             /\ \A i \in 1..Len(Top[1].v) : result[1].val[i] = Top[1].v[i].v
        ELSE ~result[1].ok /\ result[1].val = <<>>

\* ["Email addresses","Passwords"] has been decoded to these two strings
C6_Witness ==
    /\ BodyRead("DataClass")
    /\ result[1].ok
    /\ result[1].val = <<"Email addresses", "Passwords">>

\* the HTTP status of the response is no success
NonSuccess == resp # None /\ resp[1].net /\ resp[1].status \notin 200..299

\* the error that send returns when the GET fails
TransportError(r) == ~r.ok /\ r.err.tag = "Failed to send GET request"

ForBody(kind, body) ==
    CASE kind = "Paste" -> IF body = <<>> THEN Ok(<<>>) ELSE pastes_from_str(body)
      [] kind = "DataClass" -> data_classes_from_str(body)
      [] OTHER -> breaches_from_str(body)

PasteOf(o) ==
    [source |-> o["Source"].v, id |-> o["Id"].v, title |-> Some(o["Title"].v),
     date |-> Some(o["Date"].v), email_count |-> o["EmailCount"].v]

\* a required field of the object is missing or of a wrong type
BreachRequiredBad(o) == "Name" \notin DOMAIN o \/ o["Name"].t # "String"
PasteRequiredBad(o) ==
    \E k \in {"Source", "Id", "EmailCount"} : k \notin DOMAIN o \/ ~WellTyped(k, o[k])

\* all or nothing, for the array a, the result r and the record decoder of
\* which ok[i] says that it decodes element i and rec[i] is what it returns
AllOrNothing(a, r, ok, rec) ==
    IF \A i \in 1..Len(a) : a[i].t = "Object" /\ ok[i]
    THEN /\ r.ok
         /\ Len(r.val) = Len(a)
         /\ \A i \in 1..Len(a) : r.val[i] = rec[i]
    ELSE ~r.ok /\ r.val = <<>>

\* C8: a top-level array decodes all or nothing: to an error without records
\* when one element is no object or fails record decoding, wherever it is, and
\* else to one record for each element, in the order of the array
C8_AllOrNothing ==
    /\ (Decoded("breaches_from_str") /\ TopIs("Array")) =>
          LET a == Top[1].v IN
          /\ AllOrNothing(a, result[1],
                [i \in 1..Len(a) |-> parse_breach(a[i].v).ok],
                [i \in 1..Len(a) |-> parse_breach(a[i].v).val])
          /\ (\E i \in 1..Len(a) : a[i].t = "Object" /\ BreachRequiredBad(a[i].v))
                => ~result[1].ok
          /\ (\A i \in 1..Len(a) : a[i].t = "Object" /\ ValidBreachObj(a[i].v))
                => result[1].val = [i \in 1..Len(a) |-> BreachOf(a[i].v)]
    /\ (Decoded("pastes_from_str") /\ TopIs("Array")) =>
          LET a == Top[1].v IN
          /\ AllOrNothing(a, result[1],
                [i \in 1..Len(a) |-> parse_paste(a[i].v).ok],
                [i \in 1..Len(a) |-> parse_paste(a[i].v).val])
          /\ (\E i \in 1..Len(a) : a[i].t = "Object" /\ PasteRequiredBad(a[i].v))
                => ~result[1].ok
          /\ (\A i \in 1..Len(a) : a[i].t = "Object" /\ ValidPasteObj(a[i].v))
                => result[1].val = [i \in 1..Len(a) |-> PasteOf(a[i].v)]

\* an array of a valid Paste and, after it, a Paste without Id has been decoded
\* to an error and no record
C8_Witness ==
    /\ Decoded("pastes_from_str") /\ TopIs("Array")
    /\ Len(Top[1].v) = 2
    /\ Top[1].v[1].t = "Object" /\ ValidPasteObj(Top[1].v[1].v)
    /\ Top[1].v[2].t = "Object" /\ "Id" \notin DOMAIN Top[1].v[2].v
    /\ ~result[1].ok /\ result[1].val = <<>>

\* field k of object o is there, is not null and is not of its declared type
Mistyped(o, k) == k \in DOMAIN o /\ o[k].t # "Null" /\ ~WellTyped(k, o[k])

\* C9 as stated: an optional field of a Breach or of a Paste (Title, Date) that
\* is there with a value, not null, of a wrong type makes record decoding fail
C9_WrongTypeIsError ==
    /\ (/\ Decoded("breaches_from_str") /\ TopIs("Object")
        /\ \E k \in BreachOptKeys : Mistyped(Top[1].v, k))
          => ~result[1].ok
    /\ (/\ Decoded("pastes_from_str") /\ TopIs("Array") /\ Len(Top[1].v) = 1
        /\ Top[1].v[1].t = "Object"
        /\ \E k \in {"Title", "Date"} : Mistyped(Top[1].v[1].v, k))
          => ~result[1].ok

\* object o without its field k
Without(o, k) == [j \in (DOMAIN o) \ {k} |-> o[j]]

\* C10 as stated: an object with an optional field null, its other fields
\* valid, and the same object without that field both decode, to the same
\* record, in which the field is not present
C10_NullAsAbsent ==
    /\ (/\ Decoded("breaches_from_str") /\ TopIs("Object")
        /\ \E k \in BreachOptKeys :
              /\ k \in DOMAIN Top[1].v /\ Top[1].v[k] = JNull
              /\ ValidBreachObj(Without(Top[1].v, k)))
          => /\ result[1].ok
             /\ \A k \in BreachOptKeys :
                   (k \in DOMAIN Top[1].v /\ Top[1].v[k] = JNull)
                      => /\ RecordField(result[1].val[1], k) = None
                         /\ result[1] =
                              breaches_from_str(to_text(JObject(Without(Top[1].v, k))))
    /\ (/\ Decoded("pastes_from_str") /\ TopIs("Array") /\ Len(Top[1].v) = 1
        /\ Top[1].v[1].t = "Object"
        /\ \E k \in {"Title", "Date"} :
              /\ k \notin DOMAIN Top[1].v[1].v
              /\ ValidPasteObj(WithField(Top[1].v[1].v, k, GoodValue[k])))
          => result[1].ok

\* the place of a step in the pipeline of send
StepRank(step) ==
    CASE step = "build_url" -> 1
      [] step = "get" -> 2
      [] step = "read_to_string" -> 3
      [] OTHER -> 4

\* the steps have run in the order of the pipeline, none of them twice
InPipelineOrder(t) == \A i \in 1..(Len(t) - 1) : StepRank(t[i]) < StepRank(t[i + 1])

\* a call of send returns in this step
SendReturns == result = None /\ result' # None

\* what a call of send that has returned has done
OneRoundTrip ==
    (req.kind # "none" /\ result # None) =>
        /\ Len(gets) = 1
        /\ gets[1].user_agent = req.user_agent
        /\ Count(trace, "get") = 1
        /\ InPipelineOrder(trace)
        /\ ~resp[1].net =>
              /\ TransportError(result[1])
              /\ Count(trace, "read_to_string") = 0
              /\ DecoderSteps = {}
              /\ trace[Len(trace)] = "get"
        /\ (resp[1].net /\ ~resp[1].read) =>
              /\ ~result[1].ok
              /\ result[1].err.tag = "Failed to read response to string"
              /\ DecoderSteps = {}
              /\ trace[Len(trace)] = "read_to_string"
        /\ (resp[1].net /\ resp[1].read) =>
              /\ result[1] = ForBody(req.kind, resp[1].body)
              /\ Count(trace, "read_to_string") = 1
              /\ Cardinality(DecoderSteps) <= 1

\* C11: every call of send runs URL, GET, read, decode in this order with
\* exactly one GET: a failed GET returns its error with no read, no decode and
\* no second GET; a failed read returns its error with no decode; otherwise the
\* value returned is the result of the executor's decoding of the body read
\* (for PasteRequest the empty sequence for an empty body); and send leaves
\* the configuration of the request as it was
C11_OneRoundTrip == []OneRoundTrip /\ [][SendReturns => req' = req]_vars

\* a send whose GET failed has returned the transport error after one GET, with
\* no read and no decode
C11_Witness ==
    /\ req.kind = "AccountBreach" /\ result # None
    /\ req.domain # None /\ req.truncate
    /\ ~resp[1].net
    /\ TransportError(result[1])
    /\ Len(gets) = 1
    /\ trace = <<"build_url", "get">>

====
